---- MODULE Spec2Model ----
(***************************************************************************)
(* Model of the retrieval-augmented chat server of studio19-ir/chat        *)
(* (src/server/app.js) and of its offline ingest script                    *)
(* (src/unnamed/part_000).                                                 *)
(*                                                                         *)
(* Strings are sequences of small integers (characters).  Floating-point   *)
(* similarity scores are fixed-point integers in thousandths.              *)
(***************************************************************************)
EXTENDS Integers, Sequences, FiniteSets, TLC

(***************************************************************************)
(* Bounds of the model.                                                    *)
(***************************************************************************)
\* longest text handed to chunkText in ChunkSpec
MaxLen == 4
\* largest window size (and overlap) handed to chunkText in ChunkSpec
MaxSize == 4

(***************************************************************************)
(* Arithmetic helpers.                                                     *)
(***************************************************************************)
Min(a, b) == IF a < b THEN a ELSE b

Max(a, b) == IF a > b THEN a ELSE b

\* ceil(a / b) for a >= 0, b > 0
CeilDiv(a, b) == (a + b - 1) \div b

\* all sequences over S of length 0..n
SeqsUpTo(S, n) == UNION { [1..k -> S] : k \in 0..n }

(***************************************************************************)
(* String.prototype.slice(start, end): negative arguments count from the   *)
(* end of the string, both are clamped to [0, length].                     *)
(***************************************************************************)
Slice(s, start, end) ==
  LET len  == Len(s)
      from == IF start < 0 THEN Max(len + start, 0) ELSE Min(start, len)
      to   == IF end < 0 THEN Max(len + end, 0) ELSE Min(end, len)
  IN  SubSeq(s, from + 1, to)

(***************************************************************************)
(* chunkText (app.js 66-76, part_000 57-67).                               *)
(***************************************************************************)
\* a window that also drops its last character
ChunkEnd_short(len, i, size) == Min(len, i + size - 1)

\* const end = Math.min(text.length, i + size)
ChunkEnd(len, i, size) == Min(len, i + size)

\* advancing by the whole window, overlap forgotten
ChunkAdvance_noOverlap(i, size, overlap) == i + size

\* i += (size - overlap)
ChunkAdvance(i, size, overlap) == i + (size - overlap)

\* the loop of chunkText from window start i on; defined for overlap < size
RECURSIVE ChunkFrom(_, _, _, _)
ChunkFrom(text, size, overlap, i) ==
  IF i < Len(text)
  THEN <<Slice(text, i, ChunkEnd(Len(text), i, size))>>
         \o ChunkFrom(text, size, overlap, ChunkAdvance(i, size, overlap))
  ELSE <<>>

ChunkText(text, size, overlap) == ChunkFrom(text, size, overlap, 0)

(***************************************************************************)
(* Characters (UTF-16 code units) the code names in literals.              *)
(***************************************************************************)
\* "\n"
NL == 10
\* " "
SP == 32
\* "#"
HASH == 35
\* "-"
DASH == 45
\* "."
DOT == 46
\* "_"
UNDERSCORE == 95
\* ":"
COLON == 58

(***************************************************************************)
(* Numbers.  A JavaScript number that holds a similarity is modelled in    *)
(* fixed point, Scale units to 1.0.                                        *)
(***************************************************************************)
Scale == 1000

\* parseFloat(process.env.MIN_TOP_SIM || '0.78'), in units of 1/Scale
MIN_TOP_SIM == 780

\* parseFloat(process.env.MIN_AVG_TOP3 || '0.72'), in units of 1/Scale
MIN_AVG_TOP3 == 720

\* topKByCosine(qEmb, 5) in the chat handler
TopK == 5

\* chunkText's default window, in characters
DefaultSize == 800

\* chunkText's default overlap, in characters
DefaultOverlap == 200

(***************************************************************************)
(* Embedding vectors.  All non-zero vectors used have euclidean norm 20,   *)
(* so every cosine below is an exact multiple of 1/Scale.                  *)
(***************************************************************************)
VecA == <<18, 6, 6, 2, 0>>
VecB == <<16, 8, 8, 4, 0>>
VecC == <<15, 10, 5, 5, 5>>
VecD == <<0, 16, 12, 0, 0>>
VecQ1 == <<20, 0, 0, 0, 0>>
VecQ2 == <<0, 20, 0, 0, 0>>
VecZero == <<0, 0, 0, 0, 0>>

RECURSIVE SumTo(_, _)
SumTo(f, n) == IF n = 0 THEN 0 ELSE f[n] + SumTo(f, n - 1)

RECURSIVE IsqrtFrom(_, _)
IsqrtFrom(n, r) == IF (r + 1) * (r + 1) > n THEN r ELSE IsqrtFrom(n, r + 1)

\* Math.sqrt on the perfect squares the model's vectors produce
Isqrt(n) == IsqrtFrom(n, 0)

\* cosine(a, b) (app.js 49-57).  The 1e-9 added to the denominator is below
\* the fixed-point resolution; what it changes is the zero vector, whose
\* quotient is 0 / 1e-9 = 0 instead of NaN.
cosine(a, b) ==
  LET dot == SumTo([i \in 1..Len(a) |-> a[i] * b[i]], Len(a))
      na  == SumTo([i \in 1..Len(a) |-> a[i] * a[i]], Len(a))
      nb  == SumTo([i \in 1..Len(a) |-> b[i] * b[i]], Len(a))
      den == Isqrt(na) * Isqrt(nb)
  IN  IF den = 0 THEN 0 ELSE (dot * Scale) \div den

(***************************************************************************)
(* topKByCosine (app.js 182-189).  A scored record is the index record     *)
(* with its score; pos, the record's place in INDEX.items at the time of   *)
(* the call, is kept beside it to tell equal records apart.                *)
(***************************************************************************)
\* scored = INDEX.items.map(it => ({...it, score: cosine(qEmb, it.embedding)}))
ScoreAll(items, qEmb) ==
  [i \in 1..Len(items) |->
     [rec |-> items[i], pos |-> i, score |-> cosine(qEmb, items[i].embedding)]]

\* x placed into the sorted sequence s after every element that does not
\* compare after it: Array.prototype.sort is stable
RECURSIVE InsertByScore(_, _)
InsertByScore(s, x) ==
  IF s = <<>> THEN <<x>>
  ELSE IF x.score > Head(s).score THEN <<x>> \o s
  ELSE <<Head(s)>> \o InsertByScore(Tail(s), x)

RECURSIVE SortFrom(_, _, _)
SortFrom(scored, i, acc) ==
  IF i > Len(scored) THEN acc
  ELSE SortFrom(scored, i + 1, InsertByScore(acc, scored[i]))

\* a sort that leaves the array as it is
SortByScoreDesc_unsorted(scored) == scored

\* scored.sort((a, b) => b.score - a.score)
SortByScoreDesc(scored) == SortFrom(scored, 1, <<>>)


\* the k records from the low end of the ranking
topKByCosine_lowest(items, qEmb, k) ==
  LET scored == SortByScoreDesc(ScoreAll(items, qEmb))
  IN  SubSeq(scored, Len(scored) - Min(k, Len(scored)) + 1, Len(scored))

topKByCosine(items, qEmb, k) ==
  LET scored == SortByScoreDesc(ScoreAll(items, qEmb))
  IN  SubSeq(scored, 1, Min(k, Len(scored)))

\* sorting the index itself
ItemsAfterTopK_sortedInPlace(items, qEmb) ==
  LET scored == SortByScoreDesc(ScoreAll(items, qEmb))
  IN  [i \in 1..Len(scored) |-> scored[i].rec]

\* INDEX.items after a call of topKByCosine: map builds a new array and sort
\* works on that array, so the index itself is left as it was
ItemsAfterTopK(items, qEmb) == items

(***************************************************************************)
(* Strings.                                                                *)
(***************************************************************************)
\* "url:"
StrUrl == <<117, 114, 108, COLON>>

\* "file:"
StrFile == <<102, 105, 108, 101, COLON>>

\* ".pdf"
StrPdf == <<DOT, 112, 100, 102>>

\* "Bearer "
StrBearer == <<66, 101, 97, 114, 101, 114, SP>>

\* String(i) for a one-digit i
Digit(i) == <<48 + i>>

\* String(Date.now()): the digits of a timestamp, kept as one token that no
\* other character of the model equals
TimeStr(t) == <<1000 + t>>

StartsWith(s, p) == Len(s) >= Len(p) /\ SubSeq(s, 1, Len(p)) = p

EndsWith(s, p) == Len(s) >= Len(p) /\ SubSeq(s, Len(s) - Len(p) + 1, Len(s)) = p

\* String.prototype.includes
Includes(s, p) ==
  \E i \in 0..(Len(s) - Len(p)) : SubSeq(s, i + 1, i + Len(p)) = p

RECURSIVE TrimLeft(_)
TrimLeft(s) == IF s # <<>> /\ Head(s) \in {SP, NL} THEN TrimLeft(Tail(s)) ELSE s

RECURSIVE TrimRight(_)
TrimRight(s) ==
  IF s # <<>> /\ s[Len(s)] \in {SP, NL}
  THEN TrimRight(SubSeq(s, 1, Len(s) - 1))
  ELSE s

\* String.prototype.trim
Trim(s) == TrimRight(TrimLeft(s))

\* split(/\r?\n/): the pieces of s between newlines (no "\r" in the model)
RECURSIVE SplitLines(_, _)
SplitLines(s, cur) ==
  IF s = <<>> THEN <<cur>>
  ELSE IF Head(s) = NL THEN <<cur>> \o SplitLines(Tail(s), <<>>)
  ELSE SplitLines(Tail(s), Append(cur, Head(s)))

\* the tracked URLs of urls.txt (app.js 126):
\* split(/\r?\n/).map(s => s.trim()).filter(Boolean).filter(x => !x.startsWith('#'))
UrlLines(content) ==
  LET raw     == SplitLines(content, <<>>)
      trimmed == [i \in 1..Len(raw) |-> Trim(raw[i])]
      Kept(x) == x # <<>> /\ ~StartsWith(x, <<HASH>>)
  IN  SelectSeq(trimmed, Kept)

\* [^\w\.\-\u0600-\u06FF]: the characters upload replaces by "_"
IsSafeChar(c) ==
  \/ c \in 48..57 \/ c \in 65..90 \/ c \in 97..122 \/ c = UNDERSCORE
  \/ c = DOT \/ c = DASH \/ c \in 1536..1791

\* f.originalname.replace(/[^\w\.\-\u0600-\u06FF]/g, '_')
Sanitize(name) ==
  [i \in 1..Len(name) |-> IF IsSafeChar(name[i]) THEN name[i] ELSE UNDERSCORE]

\* Date.now() + '-' + sanitized original name (app.js 280)
SafeName(t, originalname) == TimeStr(t) \o <<DASH>> \o Sanitize(originalname)

(***************************************************************************)
(* The outside world: documents, the embedding service.                    *)
(*                                                                         *)
(* An extracted text is a sequence of blocks of DefaultOverlap characters  *)
(* each, so the default window of 800 characters is 4 blocks and the       *)
(* default overlap 1 block; on texts that are whole blocks chunkText cuts  *)
(* only at block boundaries.                                               *)
(***************************************************************************)
BlockChars == DefaultOverlap

Text0 == <<>>
Text1 == <<1>>
Text2 == <<2>>
Text4 == <<1, 2, 3, 4>>

\* what a fetch and text extraction of a URL can yield
Texts == {Text0, Text1, Text4}

\* a buffer pdf-parse rejects
BadBuf == <<0>>

\* the result of a step that may throw
Thrown == [ok |-> FALSE, text |-> <<>>]

Returned(text) == [ok |-> TRUE, text |-> text]

\* what fetchHtmlText / fetchPdfText (app.js 88-104) can do for a URL: throw
\* (no connection, a status that is not ok, a PDF that does not parse) or
\* return the page's text; which of the two functions runs depends on the
\* URL's ending only
FetchOutcomes == {Thrown} \cup {Returned(t) : t \in Texts}

\* chunkText(text) with the default size and overlap
ChunkDefault(text) ==
  ChunkText(text, DefaultSize \div BlockChars, DefaultOverlap \div BlockChars)

\* readTextFromBuffer (app.js 78-86): pdf-parse on ".pdf" names, which
\* throws on a buffer that is no PDF; any other buffer is decoded as text.
\* A buffer is held as the whitespace-normalised text it decodes to.
readTextFromBuffer(buf, name) ==
  IF EndsWith(name, StrPdf) /\ buf = BadBuf THEN Thrown ELSE Returned(buf)

\* the vector the embedding service returns for one text
EmbeddingOf(text) ==
  CASE text = Text1 -> VecA
    [] text = Text2 -> VecD
    [] text = Text4 -> VecB
    [] OTHER -> VecC

\* embed(texts) (app.js 58-65): one vector per input, in order
embed(texts) == [i \in 1..Len(texts) |-> EmbeddingOf(texts[i])]

(***************************************************************************)
(* Index records.                                                          *)
(***************************************************************************)
\* INDEX as the code holds it: defined tells whether INDEX.items is an array
\* (a document such as {} parses, and leaves INDEX.items undefined)
EmptyIndex == [defined |-> TRUE, items |-> <<>>]

NoItemsIndex == [defined |-> FALSE, items |-> <<>>]

\* data/index.json: missing, not parseable as JSON, or a JSON document
NoIndexFile == [state |-> "missing", doc |-> EmptyIndex]

GarbageIndexFile == [state |-> "garbage", doc |-> EmptyIndex]

JsonFile(doc) == [state |-> "json", doc |-> doc]

\* ingest/urls.txt: missing, or its characters
NoUrlsFile == [exists |-> FALSE, content |-> <<>>]

UrlsFile(content) == [exists |-> TRUE, content |-> content]

\* `${idPrefix}::${i}`
RecordId(idPrefix, i) == idPrefix \o <<COLON, COLON>> \o Digit(i)

\* the records one source contributes (app.js 109-117, 133-135, 152-154);
\* chunk i of the code is chunks[i + 1] here
RecordsOf(idPrefix, source, type, chunks, embs) ==
  [i \in 1..Len(chunks) |->
     [id |-> RecordId(idPrefix, i - 1), source |-> source, type |-> type,
      text |-> chunks[i], embedding |-> embs[i]]]

VARIABLES
  chunker,      \* one call of chunkText, run statement by statement
  tk,           \* one call of topKByCosine on an arbitrary index (TopKSpec)
  ADMIN_TOKEN,  \* process.env.ADMIN_TOKEN || ''
  INDEX,        \* the in-memory index, { items: [...] }
  DISK,         \* data/index.json
  URLS_FILE,    \* ingest/urls.txt
  FILES,        \* ingest/files, in directory order: <<[name, buf], ...>>
  now,          \* the last value Date.now() returned
  chat,         \* the POST /api/chat request in flight
  up,           \* the POST /api/admin/upload request in flight
  au,           \* the POST /api/admin/add-url request in flight
  rb,           \* the POST /api/admin/rebuild request in flight
  last,         \* what the last step did: the response it sent, if any,
                \* and what it saw
  started,      \* requests received so far
  mutated       \* some mutation of the index has completed

vars == <<chunker, tk, ADMIN_TOKEN, INDEX, DISK, URLS_FILE, FILES, now,
          chat, up, au, rb, last, started, mutated>>

\* the server's state apart from the index
restVars == <<ADMIN_TOKEN, DISK, URLS_FILE, FILES, now,
                 chat, up, au, rb, last, started, mutated>>

(***************************************************************************)
(* Bounds of the server model.                                             *)
(***************************************************************************)
\* requests the server receives in one run
MaxRequests == 3
\* files in one upload request (multer allows 10)
MaxUploadFiles == 2
\* latest timestamp Date.now() returns
MaxTime == 1
\* requests that may be suspended at an await at the same time
MaxInFlight == 2

(***************************************************************************)
(* Request inputs.                                                         *)
(***************************************************************************)
Secret == <<115>>

Wrong == <<119>>

\* values of the Authorization header
AuthHeaders == {<<>>, Secret, StrBearer \o Secret, StrBearer \o Wrong}

UrlA == <<97>>

UrlAB == <<97, 98>>

\* values of req.body.url
UrlInputs == {<<>>, <<SP>>, UrlA, UrlAB, <<SP>> \o UrlA}

\* "a b": upload stores it as "a_b"
NameAB == <<97, SP, 98>>

NamePdf == <<97>> \o StrPdf

\* the files an upload request may carry: a text file, and a file named as
\* a PDF that pdf-parse rejects
UploadFileSet ==
  { [originalname |-> NameAB, buffer |-> Text2],
    [originalname |-> NamePdf, buffer |-> BadBuf] }

\* req.body.message: t is typeof message, v its characters
Messages ==
  { [t |-> "undefined", v |-> <<>>], [t |-> "number", v |-> <<53>>],
    [t |-> "string", v |-> <<>>], [t |-> "string", v |-> <<49>>],
    [t |-> "string", v |-> <<50>>], [t |-> "string", v |-> <<51>>] }

\* embedQuery(q) (app.js 175-181): the vector the service returns for a query
QueryEmbedding(v) ==
  CASE v = <<49>> -> VecQ1
    [] v = <<50>> -> VecQ2
    [] OTHER -> VecZero

\* values of req.query.source
SourceInputs == {<<>>, UrlA, UrlAB, SafeName(0, NameAB)}

(***************************************************************************)
(* Initial state (app.js 20-44): the index is loaded from data/index.json; *)
(* a missing or unparseable file leaves { items: [] }, a parseable one is  *)
(* taken as it is, here the document {} that holds no items.               *)
(***************************************************************************)
ChatIdle == [pc |-> "idle", msg |-> <<>>, top |-> <<>>, calls |-> 0, embeds |-> 0]

\* done: the files of this request appended so far, as {[source, n]};
\* embeds: calls of the embedding service made for the file in hand
UploadIdle ==
  [pc |-> "idle", files |-> <<>>, name |-> <<>>, buf |-> <<>>,
   chunks |-> <<>>, total |-> 0, done |-> {}, embeds |-> 0]

\* embeds: calls of the embedding service made for this URL
AddUrlIdle == [pc |-> "idle", url |-> <<>>, chunks |-> <<>>, embeds |-> 0]

\* what a rebuild remembers of the step that ran right before it began
NoPrev == [op |-> "none", source |-> <<>>, n |-> 0, log |-> <<>>, alone |-> FALSE]

RebuildIdle ==
  [pc |-> "idle", todo |-> <<>>, buf |-> <<>>, items |-> <<>>,
   alone |-> TRUE, log |-> <<>>, prev |-> NoPrev, acked |-> {}]

\* a step that sends no response and records nothing: status 0
NoObs ==
  [op |-> "none", status |-> 0, tag |-> "none", n |-> 0, sources |-> <<>>,
   top |-> <<>>, calls |-> 0, embeds |-> 0, source |-> <<>>, before |-> <<>>,
   log |-> <<>>, alone |-> FALSE,
   msg |-> [t |-> "none", v |-> <<>>], prev |-> NoPrev, acked |-> {},
   auth |-> [given |-> FALSE, header |-> <<>>]]

\* app.js 40-44
LoadIndex(disk) == IF disk.state = "json" THEN disk.doc ELSE EmptyIndex

ServerInit ==
  /\ ADMIN_TOKEN \in {<<>>, Secret}
  /\ DISK \in {NoIndexFile, GarbageIndexFile, JsonFile(NoItemsIndex)}
  /\ INDEX = LoadIndex(DISK)
  /\ URLS_FILE = NoUrlsFile
  /\ FILES = <<>>
  /\ now = 0
  /\ chat = ChatIdle
  /\ up = UploadIdle
  /\ au = AddUrlIdle
  /\ rb = RebuildIdle
  /\ last = NoObs
  /\ started = 0
  /\ mutated = FALSE

\* the server before any request, for the specifications that exercise one
\* function only
ServerQuiet ==
  /\ ADMIN_TOKEN = Secret
  /\ DISK = NoIndexFile
  /\ URLS_FILE = NoUrlsFile
  /\ FILES = <<>>
  /\ now = 0
  /\ chat = ChatIdle
  /\ up = UploadIdle
  /\ au = AddUrlIdle
  /\ rb = RebuildIdle
  /\ last = NoObs
  /\ started = 0
  /\ mutated = FALSE

ChunkerOff ==
  [pc |-> "off", text |-> <<>>, size |-> 1, overlap |-> 0, i |-> 0, chunks |-> <<>>]

TopKOff == [pc |-> "off", q |-> VecZero, k |-> 0, before |-> <<>>, result |-> <<>>]

Init == ServerInit /\ chunker = ChunkerOff /\ tk = TopKOff

(***************************************************************************)
(* Helpers of the handlers.                                                *)
(***************************************************************************)
Busy(pc) == IF pc = "idle" THEN 0 ELSE 1

InFlight == Busy(chat.pc) + Busy(up.pc) + Busy(au.pc) + Busy(rb.pc)

CanStart == InFlight < MaxInFlight

\* a request arrives
Arrives == started < MaxRequests /\ started' = started + 1

\* res.status(status).json(...) sent by handler op
Response(op, status, tag, n, sources) ==
  [NoObs EXCEPT !.op = op, !.status = status, !.tag = tag, !.n = n,
                !.sources = sources]

\* req.headers['authorization'] || '' as the step that ran requireAdmin saw it
Auth(header) == [given |-> TRUE, header |-> header]

\* requireAdmin called next() and the handler is suspended at its first await
Admitted(ep, auth) == [NoObs EXCEPT !.op = "admit", !.tag = ep, !.auth = Auth(auth)]

\* a catch block that skips the failed source and answers ok
IngestFailure_swallowed(op, tag) == Response(op, 200, tag, 0, <<>>)

\* the catch block of upload and add-url (app.js 289-292, 311-314)
IngestFailure(op, tag) == Response(op, 500, tag, 0, <<>>)

\* saveIndex (app.js 45-47): the whole of INDEX, written as one JSON document
saveIndex(index) == JsonFile(index)

\* an append that forgets to persist
saveAfterAppend_skipped(index, disk) == disk

\* embedAndAppend's saveIndex() after the push loop (app.js 118)
saveAfterAppend(index, disk) == saveIndex(index)

\* requireAdmin (app.js 166-172): 0 stands for next()
requireAdmin(auth) ==
  IF ADMIN_TOKEN = <<>> THEN 500
  ELSE LET token == IF StartsWith(auth, StrBearer)
                    THEN Slice(auth, 7, Len(auth)) ELSE <<>>
       IN  IF token # ADMIN_TOKEN THEN 401 ELSE 0

\* what a step of upload, add-url or delete does to a rebuild in flight: it
\* no longer runs alone
RebuildDisturbed == IF rb.pc = "idle" THEN rb ELSE [rb EXCEPT !.alone = FALSE]

\* an upload or add-url request answers ok while a rebuild is in flight:
\* entries holds [source, n] for each source it appended n > 0 records of
RebuildAck(entries) ==
  IF rb.pc = "idle" THEN rb
  ELSE [rb EXCEPT !.alone = FALSE, !.acked = @ \cup entries]

\* a delete of source while a rebuild is in flight
RebuildForget(source) ==
  IF rb.pc = "idle" THEN rb
  ELSE [rb EXCEPT !.alone = FALSE, !.acked = {e \in @ : e.source # source}]

\* the step right before a rebuild begins, when it was a delete or the end
\* of another rebuild
PrevOf(obs) ==
  IF obs.op \in {"rebuild", "delete"} /\ obs.status = 200
  THEN [op |-> obs.op, source |-> obs.source, n |-> obs.n, log |-> obs.log,
        alone |-> obs.alone]
  ELSE NoPrev

(***************************************************************************)
(* POST /api/chat (app.js 214-248).                                        *)
(***************************************************************************)
\* the gate without the test of the mean
GateRefuses_topOnly(top) ==
  LET topSim == IF top = <<>> THEN 0 ELSE top[1].score
  IN  topSim < MIN_TOP_SIM

\* topSim < MIN_TOP_SIM || avgTop3 < MIN_AVG_TOP3 (app.js 225-227), where
\* avgTop3 = sum / max(1, min(3, top.length)); the division is carried to the
\* other side of the comparison
GateRefuses(top) ==
  LET topSim == IF top = <<>> THEN 0 ELSE top[1].score
      n      == Min(3, Len(top))
      sum    == SumTo([i \in 1..n |-> top[i].score], n)
  IN  topSim < MIN_TOP_SIM \/ sum < MIN_AVG_TOP3 * Max(1, n)

\* top.map((t, i) => ({id: i+1, source: t.source, score: Number(t.score.toFixed(3))}))
\* toFixed(3) keeps exactly the fixed-point resolution
SourcesOf(top) ==
  [i \in 1..Len(top) |-> [id |-> i, source |-> top[i].rec.source, score |-> top[i].score]]

\* validation, then await embedQuery(message) (app.js 216-223)
ChatStart ==
  /\ Arrives
  /\ chat.pc = "idle"
  /\ \E m \in Messages :
       IF m.t # "string" \/ m.v = <<>>
       THEN /\ chat' = ChatIdle
            /\ last' = [Response("chat", 400, "message is required", 0, <<>>)
                          EXCEPT !.msg = m]
       ELSE IF ~INDEX.defined \/ INDEX.items = <<>>
       THEN /\ chat' = ChatIdle
            /\ last' = [Response("chat", 400, "No index found", 0, <<>>)
                          EXCEPT !.msg = m]
       ELSE /\ CanStart
            /\ chat' = [ChatIdle EXCEPT !.pc = "embed", !.msg = m.v, !.embeds = 1]
            /\ last' = [NoObs EXCEPT !.op = "chat", !.tag = "embedding", !.msg = m,
                                     !.embeds = 1]
  /\ UNCHANGED <<chunker, tk, ADMIN_TOKEN, INDEX, DISK, URLS_FILE, FILES, now,
                 up, au, rb, mutated>>

\* embedQuery settles; retrieval, the gate, and either the refusal or the
\* call of the completion service (app.js 223-240)
ChatEmbedded ==
  /\ chat.pc = "embed"
  /\ \E ok \in BOOLEAN :
       IF ~ok
       THEN /\ chat' = ChatIdle
            /\ last' = [Response("chat", 500, "embedding error", 0, <<>>)
                          EXCEPT !.embeds = chat.embeds]
            /\ INDEX' = INDEX
       ELSE LET qEmb == QueryEmbedding(chat.msg)
                top  == topKByCosine(INDEX.items, qEmb, TopK)
            IN  /\ INDEX' = [INDEX EXCEPT !.items = ItemsAfterTopK(INDEX.items, qEmb)]
                /\ IF GateRefuses(top)
                   THEN /\ chat' = ChatIdle
                        /\ last' = [Response("chat", 200, "refusal", 0, <<>>)
                                      EXCEPT !.top = top, !.calls = chat.calls,
                                             !.embeds = chat.embeds]
                   ELSE /\ chat' = [chat EXCEPT !.pc = "complete", !.top = top,
                                      !.calls = chat.calls + 1]
                        /\ last' = [NoObs EXCEPT !.op = "chat", !.tag = "gate passed",
                                             !.top = top, !.calls = chat.calls + 1,
                                             !.embeds = chat.embeds]
  /\ UNCHANGED <<chunker, tk, ADMIN_TOKEN, DISK, URLS_FILE, FILES, now,
                 up, au, rb, started, mutated>>

\* the completion settles (app.js 233-247)
ChatCompleted ==
  /\ chat.pc = "complete"
  /\ \E ok \in BOOLEAN :
       IF ok
       THEN /\ chat' = ChatIdle
            /\ last' = [Response("chat", 200, "answer", 0, SourcesOf(chat.top))
                          EXCEPT !.top = chat.top, !.calls = chat.calls,
                                 !.embeds = chat.embeds]
       ELSE /\ chat' = ChatIdle
            /\ last' = [Response("chat", 500, "completion error", 0, <<>>)
                          EXCEPT !.top = chat.top, !.calls = chat.calls,
                                 !.embeds = chat.embeds]
  /\ UNCHANGED <<chunker, tk, ADMIN_TOKEN, INDEX, DISK, URLS_FILE, FILES, now,
                 up, au, rb, started, mutated>>

(***************************************************************************)
(* Admin requests that requireAdmin turns away (app.js 166-172).           *)
(***************************************************************************)
AdminEndpoints == {"items", "delete", "upload", "add-url", "rebuild"}

AdminReject ==
  /\ Arrives
  /\ \E ep \in AdminEndpoints, auth \in AuthHeaders :
       /\ requireAdmin(auth) # 0
       /\ last' = [Response("reject", requireAdmin(auth), ep, 0, <<>>)
                     EXCEPT !.auth = Auth(auth)]
  /\ UNCHANGED <<chunker, tk, ADMIN_TOKEN, INDEX, DISK, URLS_FILE, FILES, now,
                 chat, up, au, rb, mutated>>

(***************************************************************************)
(* GET /api/admin/items (app.js 253-263): the total and one group for each *)
(* source; (INDEX.items || []) and INDEX.items?.length || 0 take an index  *)
(* without items as an empty one.                                          *)
(***************************************************************************)
ListItems ==
  /\ Arrives
  /\ \E auth \in AuthHeaders :
       /\ requireAdmin(auth) = 0
       /\ LET items  == IF INDEX.defined THEN INDEX.items ELSE <<>>
              groups == {items[i].source : i \in 1..Len(items)}
          IN  last' = [Response("items", 200, "ok", Len(items), <<>>)
                         EXCEPT !.auth = Auth(auth), !.calls = Cardinality(groups)]
  /\ UNCHANGED <<chunker, tk, ADMIN_TOKEN, INDEX, DISK, URLS_FILE, FILES, now,
                 chat, up, au, rb, mutated>>

(***************************************************************************)
(* DELETE /api/admin/source (app.js 265-272).  The handler holds no await: *)
(* it runs to its end in one step.  With INDEX.items undefined its first   *)
(* statement throws, outside any try: no response is sent.                 *)
(***************************************************************************)
\* lines written back as a file's content
RECURSIVE JoinLines(_)
JoinLines(lines) ==
  IF lines = <<>> THEN <<>> ELSE Head(lines) \o <<NL>> \o JoinLines(Tail(lines))

\* a delete that also takes the source off the URL list
UrlsAfterDelete_untracked(file, source) ==
  LET Other(c) == c # source
      kept     == SelectSeq(UrlLines(file.content), Other)
  IN  IF file.exists /\ kept # UrlLines(file.content)
      THEN UrlsFile(JoinLines(kept)) ELSE file

\* ingest/urls.txt after the handler: it never touches the file
UrlsAfterDelete(file, source) == file

\* INDEX.items.filter(it => it.source !== source)
DeleteFilter(items, source) ==
  LET Keep(it) == it.source # source IN SelectSeq(items, Keep)

DeleteSource ==
  /\ Arrives
  /\ \E auth \in AuthHeaders, source \in SourceInputs :
       /\ requireAdmin(auth) = 0
       /\ IF source = <<>>
          THEN /\ last' = [Response("delete", 400, "source query required", 0, <<>>)
                             EXCEPT !.auth = Auth(auth)]
               /\ UNCHANGED <<INDEX, DISK, URLS_FILE, mutated, rb>>
          ELSE IF ~INDEX.defined
          THEN /\ last' = [Response("delete", 0, "TypeError, no response", 0, <<>>)
                             EXCEPT !.source = source, !.auth = Auth(auth)]
               /\ UNCHANGED <<INDEX, DISK, URLS_FILE, mutated, rb>>
          ELSE /\ INDEX' = [INDEX EXCEPT !.items = DeleteFilter(INDEX.items, source)]
               /\ DISK' = saveIndex(INDEX')
               /\ URLS_FILE' = UrlsAfterDelete(URLS_FILE, source)
               /\ last' = [Response("delete", 200, "removed",
                                    Len(INDEX.items) - Len(INDEX'.items), <<>>)
                             EXCEPT !.source = source, !.before = INDEX.items,
                                    !.auth = Auth(auth)]
               /\ mutated' = TRUE
               /\ rb' = RebuildForget(source)
  /\ UNCHANGED <<chunker, tk, ADMIN_TOKEN, FILES, now, chat, up, au>>

(***************************************************************************)
(* embedAndAppend (app.js 106-120), the part after await embed(chunks):    *)
(* the push loop; saveIndex follows it in the same step.                   *)
(***************************************************************************)
\* a push loop that gives way to other handlers after each record: the step
\* that resumes it ends with the first record pushed
AppendRecords_firstOnly(index, idPrefix, source, type, chunks, embs) ==
  [index EXCEPT !.items =
     @ \o SubSeq(RecordsOf(idPrefix, source, type, chunks, embs), 1, 1)]

AppendRecords(index, idPrefix, source, type, chunks, embs) ==
  [index EXCEPT !.items = @ \o RecordsOf(idPrefix, source, type, chunks, embs)]

(***************************************************************************)
(* POST /api/admin/upload (app.js 274-293).                                *)
(***************************************************************************)
\* fs.writeFileSync(path.join(FILES_DIR, name), buf): a new directory entry,
\* or new contents for the entry of that name
WriteFile(files, name, buf) ==
  IF \E i \in 1..Len(files) : files[i].name = name
  THEN [i \in 1..Len(files) |->
          IF files[i].name = name THEN [name |-> name, buf |-> buf] ELSE files[i]]
  ELSE Append(files, [name |-> name, buf |-> buf])

\* the loop body up to await readTextFromBuffer (app.js 278-283), at time t
UploadBeginFile(files, total, done, t) ==
  LET f    == Head(files)
      name == SafeName(t, f.originalname)
  IN  /\ FILES' = WriteFile(FILES, name, f.buffer)
      /\ now' = t
      /\ up' = [pc |-> "extract", files |-> Tail(files), name |-> name,
                buf |-> f.buffer, chunks |-> <<>>, total |-> total, done |-> done,
                embeds |-> 0]

\* after total += added: the next file, or the response (app.js 286-288)
UploadNext(rest, total, done) ==
  IF rest = <<>>
  THEN /\ up' = UploadIdle
       /\ last' = Response("upload", 200, "ok", total, <<>>)
       /\ rb' = RebuildAck(done)
       /\ UNCHANGED <<FILES, now>>
  ELSE /\ \E t \in now..MaxTime : UploadBeginFile(rest, total, done, t)
       /\ last' = NoObs
       /\ rb' = RebuildDisturbed

UploadStart ==
  /\ Arrives
  /\ up.pc = "idle"
  /\ \E auth \in AuthHeaders, files \in SeqsUpTo(UploadFileSet, MaxUploadFiles) :
       /\ requireAdmin(auth) = 0
       /\ IF files = <<>>
          THEN /\ last' = [Response("upload", 400, "no files", 0, <<>>)
                             EXCEPT !.auth = Auth(auth)]
               /\ UNCHANGED <<up, FILES, now, rb>>
          ELSE /\ CanStart
               /\ \E t \in now..MaxTime : UploadBeginFile(files, 0, {}, t)
               /\ last' = Admitted("upload", auth)
               /\ rb' = RebuildDisturbed
  /\ UNCHANGED <<chunker, tk, ADMIN_TOKEN, INDEX, DISK, URLS_FILE, chat, au, mutated>>

\* readTextFromBuffer settles; chunkText; embedAndAppend up to await embed
\* (app.js 283-285, 107-108).  The extension is read off the stored name,
\* which ends as the original name does.
UploadExtracted ==
  /\ up.pc = "extract"
  /\ LET r == readTextFromBuffer(up.buf, up.name)
     IN  IF ~r.ok
         THEN /\ up' = UploadIdle
              /\ last' = [IngestFailure("upload", "extraction error")
                            EXCEPT !.source = up.name, !.embeds = up.embeds,
                                   !.acked = up.done]
              /\ rb' = RebuildDisturbed
              /\ UNCHANGED <<FILES, now>>
         ELSE LET chunks == ChunkDefault(r.text)
              IN  IF chunks = <<>>
                  THEN UploadNext(up.files, up.total, up.done)
                  ELSE /\ up' = [up EXCEPT !.pc = "embed", !.chunks = chunks,
                                            !.embeds = @ + 1]
                       /\ last' = NoObs
                       /\ rb' = RebuildDisturbed
                       /\ UNCHANGED <<FILES, now>>
  /\ UNCHANGED <<chunker, tk, ADMIN_TOKEN, INDEX, DISK, URLS_FILE, chat, au,
                 started, mutated>>

\* embed settles: the error response, or push, save and on to the next file
UploadEmbedded ==
  /\ up.pc = "embed"
  /\ \E ok \in BOOLEAN :
       IF ~ok \/ ~INDEX.defined
       THEN /\ up' = UploadIdle
            /\ last' = [IngestFailure("upload", "embedding error")
                          EXCEPT !.source = up.name, !.embeds = up.embeds,
                                 !.acked = up.done]
            /\ rb' = RebuildDisturbed
            /\ UNCHANGED <<INDEX, DISK, FILES, now, mutated>>
       ELSE /\ INDEX' = AppendRecords(INDEX, StrFile \o up.name, up.name, "file",
                                      up.chunks, embed(up.chunks))
            /\ DISK' = saveAfterAppend(INDEX', DISK)
            /\ mutated' = TRUE
            /\ UploadNext(up.files, up.total + Len(up.chunks),
                          up.done \cup {[source |-> up.name, n |-> Len(up.chunks)]})
  /\ UNCHANGED <<chunker, tk, ADMIN_TOKEN, URLS_FILE, chat, au, started>>

(***************************************************************************)
(* POST /api/admin/add-url (app.js 295-315).                               *)
(***************************************************************************)
\* app.js 305-309: the URL is appended unless the file's text includes it
StoreUrl(file, url) ==
  LET exists == IF file.exists THEN Includes(file.content, url) ELSE FALSE
  IN  IF ~exists THEN UrlsFile(file.content \o url \o <<NL>>) ELSE file

AddUrlStart ==
  /\ Arrives
  /\ au.pc = "idle"
  /\ \E auth \in AuthHeaders, raw \in UrlInputs :
       /\ requireAdmin(auth) = 0
       /\ LET url == Trim(raw)
          IN  IF url = <<>>
              THEN /\ last' = [Response("add-url", 400, "url required", 0, <<>>)
                                 EXCEPT !.auth = Auth(auth)]
                   /\ UNCHANGED au
              ELSE /\ CanStart
                   /\ au' = [AddUrlIdle EXCEPT !.pc = "fetch", !.url = url]
                   /\ last' = Admitted("add-url", auth)
  /\ UNCHANGED <<chunker, tk, ADMIN_TOKEN, INDEX, DISK, URLS_FILE, FILES, now,
                 chat, up, rb, mutated>>

\* the fetch settles; chunkText; embedAndAppend up to await embed, or, with
\* no chunk, its return of 0 and the rest of the handler
AddUrlFetched ==
  /\ au.pc = "fetch"
  /\ \E r \in FetchOutcomes :
       IF ~r.ok
       THEN /\ au' = AddUrlIdle
            /\ last' = [IngestFailure("add-url", "fetch error")
                          EXCEPT !.source = au.url, !.embeds = au.embeds]
            /\ UNCHANGED <<URLS_FILE, rb>>
       ELSE LET chunks == ChunkDefault(r.text)
            IN  IF chunks = <<>>
                THEN /\ URLS_FILE' = StoreUrl(URLS_FILE, au.url)
                     /\ au' = AddUrlIdle
                     /\ last' = [Response("add-url", 200, "ok", 0, <<>>)
                                   EXCEPT !.source = au.url]
                     /\ rb' = RebuildDisturbed
                ELSE /\ au' = [au EXCEPT !.pc = "embed", !.chunks = chunks,
                                          !.embeds = @ + 1]
                     /\ last' = NoObs
                     /\ UNCHANGED <<URLS_FILE, rb>>
  /\ UNCHANGED <<chunker, tk, ADMIN_TOKEN, INDEX, DISK, FILES, now,
                 chat, up, started, mutated>>

\* embed settles: the error response, or push, save, urls.txt, response
AddUrlEmbedded ==
  /\ au.pc = "embed"
  /\ \E ok \in BOOLEAN :
       IF ~ok \/ ~INDEX.defined
       THEN /\ au' = AddUrlIdle
            /\ last' = [IngestFailure("add-url", "embedding error")
                          EXCEPT !.source = au.url, !.embeds = au.embeds]
            /\ rb' = RebuildDisturbed
            /\ UNCHANGED <<INDEX, DISK, URLS_FILE, mutated>>
       ELSE /\ INDEX' = AppendRecords(INDEX, StrUrl \o au.url, au.url, "url",
                                      au.chunks, embed(au.chunks))
            /\ DISK' = saveAfterAppend(INDEX', DISK)
            /\ mutated' = TRUE
            /\ URLS_FILE' = StoreUrl(URLS_FILE, au.url)
            /\ au' = AddUrlIdle
            /\ last' = [Response("add-url", 200, "ok", Len(au.chunks), <<>>)
                          EXCEPT !.source = au.url]
            /\ rb' = RebuildAck({[source |-> au.url, n |-> Len(au.chunks)]})
  /\ UNCHANGED <<chunker, tk, ADMIN_TOKEN, FILES, now, chat, up, started>>

(***************************************************************************)
(* POST /api/admin/rebuild, rebuildFromDisk (app.js 122-163, 317-324).     *)
(* One step per source: its fetch or read, chunkText and embed touch only  *)
(* the local items, so the two awaits of a source are taken together.      *)
(* rb.log records what became of each source; rb.alone whether any upload, *)
(* add-url or delete step ran since this rebuild began.                    *)
(***************************************************************************)
FileNames(files) == [i \in 1..Len(files) |-> files[i].name]

\* fs.readFileSync(path.join(FILES_DIR, name))
ReadFile(files, name) ==
  LET i == CHOOSE j \in 1..Len(files) : files[j].name = name IN files[i].buf

\* keeping the previous index in front of the rebuilt records
RebuiltIndex_keepOld(items) == [defined |-> TRUE, items |-> INDEX.items \o items]

\* keeping the previous records of the sources this run has no record of
RebuiltIndex_merge(items) ==
  LET Missing(it) == \A i \in 1..Len(items) : items[i].source # it.source
  IN  [defined |-> TRUE,
       items |-> (IF INDEX.defined THEN SelectSeq(INDEX.items, Missing) ELSE <<>>)
                 \o items]

\* INDEX = { items } (app.js 160)
RebuiltIndex(items) == [defined |-> TRUE, items |-> items]

\* app.js 160-162 and the handler's response; r is the rebuild as this step
\* leaves it, a the Authorization header when this is the request's first step
RebuildFinish(r, a) ==
  /\ INDEX' = RebuiltIndex(r.items)
  /\ DISK' = saveIndex(INDEX')
  /\ mutated' = TRUE
  /\ last' = [Response("rebuild", 200, "ok", Len(r.items), <<>>)
                EXCEPT !.log = r.log, !.alone = r.alone, !.prev = r.prev,
                       !.acked = r.acked, !.before = INDEX.items, !.auth = a]
  /\ rb' = RebuildIdle

\* the rebuild stays suspended at an await
RebuildGoesOn(r, a) ==
  /\ rb' = r
  /\ last' = IF a.given THEN [NoObs EXCEPT !.op = "admit", !.tag = "rebuild", !.auth = a]
             ELSE NoObs
  /\ UNCHANGED <<INDEX, DISK, mutated>>

\* app.js 142-148: the directory is listed when the URL loop has ended, and
\* each file is read as its turn comes
RebuildEnterFiles(r, a) ==
  IF FILES # <<>>
  THEN RebuildGoesOn([r EXCEPT !.pc = "file", !.todo = FileNames(FILES),
                               !.buf = FILES[1].buf], a)
  ELSE RebuildFinish(r, a)

\* the try/catch around each source (app.js 128-138, 147-157): whatever
\* became of this source, the loop goes on with the rest
RebuildAfterSource(good, rest) == rest

RebuildStart ==
  /\ Arrives
  /\ rb.pc = "idle"
  /\ CanStart
  /\ \E auth \in AuthHeaders :
       /\ requireAdmin(auth) = 0
       /\ LET lines == IF URLS_FILE.exists THEN UrlLines(URLS_FILE.content) ELSE <<>>
              r     == [RebuildIdle EXCEPT !.alone = (up.pc = "idle" /\ au.pc = "idle"),
                                           !.prev = PrevOf(last)]
          IN  IF lines # <<>>
              THEN RebuildGoesOn([r EXCEPT !.pc = "url", !.todo = lines], Auth(auth))
              ELSE RebuildEnterFiles(r, Auth(auth))
  /\ UNCHANGED <<chunker, tk, ADMIN_TOKEN, URLS_FILE, FILES, now, chat, up, au>>

\* one entry of the rebuild's log: the source, what its fetch or extraction
\* yielded, whether its embedding succeeded, and the chunks it contributed
LogEntry(type, source, r, embOk) ==
  [type |-> type, source |-> source, fetched |-> r, embedded |-> embOk,
   ok |-> r.ok /\ embOk,
   chunks |-> IF r.ok /\ embOk THEN ChunkDefault(r.text) ELSE <<>>]

\* one URL of the list (app.js 127-139); embed is called even for no chunk,
\* and may throw then as at any other time
RebuildUrlStep ==
  /\ rb.pc = "url"
  /\ \E r \in FetchOutcomes, embOk \in BOOLEAN :
       LET url   == Head(rb.todo)
           e     == LogEntry("url", url, r, r.ok /\ embOk)
           items == rb.items \o RecordsOf(StrUrl \o url, url, "url", e.chunks, embed(e.chunks))
           rest  == RebuildAfterSource(e.ok, Tail(rb.todo))
           next  == [rb EXCEPT !.todo = rest, !.items = items, !.log = Append(@, e)]
       IN  IF rest # <<>>
           THEN RebuildGoesOn(next, NoObs.auth)
           ELSE RebuildEnterFiles(next, NoObs.auth)
  /\ UNCHANGED <<chunker, tk, ADMIN_TOKEN, URLS_FILE, FILES, now, chat, up, au, started>>

\* one file of the directory (app.js 144-158)
RebuildFileStep ==
  /\ rb.pc = "file"
  /\ \E embOk \in BOOLEAN :
       LET name  == Head(rb.todo)
           r     == readTextFromBuffer(rb.buf, name)
           e     == LogEntry("file", name, r, r.ok /\ embOk)
           items == rb.items \o RecordsOf(StrFile \o name, name, "file", e.chunks, embed(e.chunks))
           rest  == RebuildAfterSource(e.ok, Tail(rb.todo))
           next  == [rb EXCEPT !.todo = rest, !.items = items, !.log = Append(@, e)]
       IN  IF rest # <<>>
           THEN RebuildGoesOn([next EXCEPT !.buf = ReadFile(FILES, Head(rest))],
                              NoObs.auth)
           ELSE RebuildFinish(next, NoObs.auth)
  /\ UNCHANGED <<chunker, tk, ADMIN_TOKEN, URLS_FILE, FILES, now, chat, up, au, started>>

Next ==
  \/ ChatStart \/ ChatEmbedded \/ ChatCompleted
  \/ AdminReject
  \/ ListItems
  \/ DeleteSource
  \/ UploadStart \/ UploadExtracted \/ UploadEmbedded
  \/ AddUrlStart \/ AddUrlFetched \/ AddUrlEmbedded
  \/ RebuildStart \/ RebuildUrlStep \/ RebuildFileStep

Spec == Init /\ [][Next]_vars

(***************************************************************************)
(* TopKSpec: one call of topKByCosine, for every query and k, on every     *)
(* index of up to MaxIndex records.                                        *)
(***************************************************************************)
\* records in the index handed to topKByCosine
MaxIndex == 4
\* largest k handed to topKByCosine
MaxK == 5

TopKRecords ==
  LET chunks == <<Text1, Text4, <<4>>>>
      recs   == RecordsOf(StrUrl \o UrlA, UrlA, "url", chunks, embed(chunks))
  IN  {recs[i] : i \in 1..Len(recs)}

TopKInit ==
  /\ ServerQuiet
  /\ chunker = ChunkerOff
  /\ \E items \in SeqsUpTo(TopKRecords, MaxIndex) :
        INDEX = [defined |-> TRUE, items |-> items]
  /\ tk = [TopKOff EXCEPT !.pc = "ready"]

TopKCall ==
  /\ tk.pc = "ready"
  /\ \E q \in {VecQ1, VecQ2, VecZero}, k \in 0..MaxK :
       /\ tk' = [pc |-> "done", q |-> q, k |-> k, before |-> INDEX.items,
                 result |-> topKByCosine(INDEX.items, q, k)]
       /\ INDEX' = [INDEX EXCEPT !.items = ItemsAfterTopK(INDEX.items, q)]
  /\ UNCHANGED <<chunker, ADMIN_TOKEN, DISK, URLS_FILE, FILES, now,
                 chat, up, au, rb, last, started, mutated>>

TopKNext == TopKCall

TopKSpec == TopKInit /\ [][TopKNext]_vars

(***************************************************************************)
(* Claims about retrieval and the gate.                                    *)
(***************************************************************************)
Scores(top) == [i \in 1..Len(top) |-> top[i].score]

\* the step just taken ranked the index for a query
ChatRanked == last.op = "chat" /\ last.tag \in {"refusal", "gate passed"}

\* C1: a query on a non-empty index is answered with the fixed refusal (no
\* sources) exactly when topSim < MIN_TOP_SIM or avgTop3 < MIN_AVG_TOP3; a
\* refusal never calls the completion service, any other outcome has called
\* it exactly once; scores [0.9, 0.8, 0.75] pass, [0.5, 0.4, 0.3] are refused.
C1_GateDecides ==
  /\ (ChatRanked /\ last.top # <<>>) =>
        LET top     == last.top
            n       == Min(3, Len(top))
            sum     == SumTo(Scores(SubSeq(top, 1, n)), n)
            refused == last.tag = "refusal"
        IN  /\ refused <=> (top[1].score < MIN_TOP_SIM \/ sum < n * MIN_AVG_TOP3)
            /\ refused => /\ last.status = 200
                          /\ last.sources = <<>>
                          /\ last.calls = 0
                          /\ chat.pc = "idle"
            /\ ~refused => last.calls = 1 /\ chat.pc = "complete"
            /\ Scores(top) = <<900, 800, 750>> => ~refused
            /\ Scores(top) = <<500, 400, 300>> => refused
  /\ (last.op = "chat" /\ last.tag \in {"answer", "completion error"}) =>
        last.calls = 1
  /\ chat.pc = "complete" => chat.calls = 1

C1_Witness ==
  /\ last.op = "chat"
  /\ last.tag = "answer"
  /\ Scores(last.top) = <<900, 800, 750>>
  /\ Len(last.sources) = 3

\* the other example of C1 is reached too
C1_RefusalReached ==
  /\ last.op = "chat"
  /\ last.tag = "refusal"
  /\ Scores(last.top) = <<500, 400, 300>>

\* so is a refusal that the test of the mean decides alone
C1_RefusedByMeanAlone ==
  /\ ChatRanked
  /\ last.tag = "refusal"
  /\ last.top # <<>>
  /\ last.top[1].score >= MIN_TOP_SIM

\* positions of the index a result holds
ResultPositions(result) == {result[i].pos : i \in 1..Len(result)}

\* C5: topKByCosine(q, k) returns exactly min(k, |index|) scored records,
\* each a distinct record of the index; no record left out scores strictly
\* higher than a returned one; with k >= |index| every record is returned;
\* INDEX.items is left unchanged.
C5_TopK ==
  tk.pc = "done" =>
    LET n      == Len(tk.before)
        result == tk.result
        left   == (1..n) \ ResultPositions(result)
    IN  /\ Len(result) = Min(tk.k, n)
        /\ \A i \in 1..Len(result) :
              /\ result[i].pos \in 1..n
              /\ result[i].rec = tk.before[result[i].pos]
        /\ Cardinality(ResultPositions(result)) = Len(result)
        /\ \A p \in left : \A i \in 1..Len(result) :
              cosine(tk.q, tk.before[p].embedding) <= result[i].score
        /\ tk.k >= n => ResultPositions(result) = 1..n
        /\ INDEX.items = tk.before

C5_Witness ==
  /\ tk.pc = "done"
  /\ tk.k >= 2
  /\ tk.k < Len(tk.before)
  /\ tk.result[1].pos > tk.result[2].pos
  /\ tk.result[1].score > tk.result[2].score

\* C6 (as stated): every returned record's score is strictly greater than
\* the score of the record that follows it.
C6_StrictlyDescending ==
  ChatRanked =>
    \A i \in 1..(Len(last.top) - 1) : last.top[i].score > last.top[i + 1].score

\* C6 (amended): the results are sorted descending by score, each returned
\* record's score being greater than or equal to the score of the record
\* that follows it; equal scores occur (the same text indexed twice).
C6_Descending ==
  ChatRanked =>
    \A i \in 1..(Len(last.top) - 1) : last.top[i].score >= last.top[i + 1].score

C6_Witness ==
  /\ ChatRanked
  /\ Len(last.top) = 3
  /\ last.top[1].pos = 3
  /\ last.top[1].score > last.top[2].score
  /\ last.top[2].score > last.top[3].score

(***************************************************************************)
(* Claims about the vector store.                                          *)
(***************************************************************************)
\* what C7 asks of the state a delete-by-source request leaves
DeleteOutcome ==
  LET Differs(it) == it.source # last.source
      Equals(it)  == it.source = last.source
  IN  /\ last.status = 200
      /\ last.source # <<>>
      /\ INDEX.items = SelectSeq(last.before, Differs)
      /\ last.n = Len(SelectSeq(last.before, Equals))
      /\ DISK = JsonFile(INDEX)

\* a delete-by-source request with a non-empty source has just run
DeleteRan == last.op = "delete" /\ last.tag # "source query required"

\* C7 (as stated): for every index state and every non-empty source s,
\* delete-by-source(s) leaves exactly the records whose source differs from
\* s, in their order and unchanged, reports the number of records whose
\* source was s, and persists the result.
C7_DeleteBySource == DeleteRan => DeleteOutcome

\* what does hold: the same on every index that holds a record list
C7_DeleteOnRecordList == (DeleteRan /\ INDEX.defined) => DeleteOutcome

C7_Witness ==
  /\ last.op = "delete"
  /\ last.status = 200
  /\ last.n >= 1
  /\ Len(INDEX.items) >= 1
  /\ \E i \in 1..Len(last.before) : StartsWith(last.before[i].source, last.source)
                                     /\ last.before[i].source # last.source

\* C8: in every state that follows a completed mutation (every state is one
\* between two event-loop steps), the persisted document equals the
\* in-memory index.
C8_PersistedAfterMutation == mutated => DISK = JsonFile(INDEX)

C8_Witness ==
  /\ mutated
  /\ INDEX.items # <<>>
  /\ up.pc = "extract"
  /\ up.total > 0
  /\ DISK = JsonFile(INDEX)

\* C9 (as stated): no two records of the index have the same id.
C9_UniqueIds ==
  \A i, j \in 1..Len(INDEX.items) :
     i # j => INDEX.items[i].id # INDEX.items[j].id

\* what the sources of a rebuild log contribute, in order
RECURSIVE ExpectedOf(_)
ExpectedOf(log) ==
  IF log = <<>> THEN <<>>
  ELSE LET e == Head(log)
       IN  (IF e.ok
            THEN [i \in 1..Len(e.chunks) |->
                    [source |-> e.source, type |-> e.type, text |-> e.chunks[i]]]
            ELSE <<>>)
           \o ExpectedOf(Tail(log))

\* C10: a rebuild always answers ok; run alone it has tried every tracked
\* URL in list order and then every stored file, and leaves the index, in
\* memory and persisted, holding exactly the chunks of the sources that did
\* not fail, in that order: nothing of the previous index survives, a failed
\* source contributes nothing and stops no later source.
C10_RebuildBestEffort ==
  last.op = "rebuild" =>
    /\ last.status = 200
    /\ last.alone =>
         LET tracked == IF URLS_FILE.exists THEN UrlLines(URLS_FILE.content) ELSE <<>>
             log     == last.log
         IN  /\ [i \in 1..Len(log) |-> <<log[i].type, log[i].source>>]
                  = [i \in 1..Len(tracked) |-> <<"url", tracked[i]>>]
                    \o [i \in 1..Len(FILES) |-> <<"file", FILES[i].name>>]
             /\ INDEX.defined
             /\ [i \in 1..Len(INDEX.items) |->
                   [source |-> INDEX.items[i].source, type |-> INDEX.items[i].type,
                    text |-> INDEX.items[i].text]]
                  = ExpectedOf(log)
             /\ last.n = Len(INDEX.items)
             /\ DISK = JsonFile(INDEX)

C10_Witness ==
  /\ last.op = "rebuild"
  /\ last.alone
  /\ Len(last.log) = 2
  /\ ~last.log[1].ok
  /\ last.log[2].ok
  /\ Len(INDEX.items) = 2
  /\ INDEX.items[1].source = last.log[2].source

(***************************************************************************)
(* Claims about rebuild after rebuild, the URL list and admin access.      *)
(***************************************************************************)
\* the id, source and chunk text of each record, in order
IdSourceText(items) ==
  [i \in 1..Len(items) |->
     [id |-> items[i].id, source |-> items[i].source, text |-> items[i].text]]

\* a rebuild run alone has just ended, and the step before it began was the
\* end of another rebuild run alone: last.before is what that one left
SecondRebuild ==
  /\ last.op = "rebuild"
  /\ last.alone
  /\ last.prev.op = "rebuild"
  /\ last.prev.alone

\* both runs tried the same sources and each fetch or extraction ended alike
SameFetches ==
  /\ Len(last.log) = Len(last.prev.log)
  /\ \A i \in 1..Len(last.log) :
        /\ last.log[i].type = last.prev.log[i].type
        /\ last.log[i].source = last.prev.log[i].source
        /\ last.log[i].fetched = last.prev.log[i].fetched

\* and each embedding call ended alike
SameEmbeddings ==
  \A i \in 1..Len(last.log) : last.log[i].embedded = last.prev.log[i].embedded

\* C11 (as stated): with the URL list, the files and the outcome of fetching
\* or extracting each source the same for both runs, two rebuilds run one
\* right after the other yield the same item count and the same sequence of
\* record ids, sources and chunk texts.
C11_RebuildIdempotent ==
  (SecondRebuild /\ SameFetches) =>
     IdSourceText(INDEX.items) = IdSourceText(last.before)

\* C11 (amended): the same, provided also that the embedding of each source
\* succeeds in both runs or fails in both.
C11_RebuildIdempotentSameEmbeddings ==
  (SecondRebuild /\ SameFetches /\ SameEmbeddings) =>
     /\ IdSourceText(INDEX.items) = IdSourceText(last.before)
     /\ last.n = Len(last.before)

C11_Witness ==
  /\ SecondRebuild
  /\ SameFetches
  /\ SameEmbeddings
  /\ Len(INDEX.items) = 2
  /\ INDEX.items[1].id # INDEX.items[2].id

\* the lines of ingest/urls.txt that a rebuild reads as URLs
TrackedUrls ==
  IF URLS_FILE.exists
  THEN {UrlLines(URLS_FILE.content)[i] : i \in 1..Len(UrlLines(URLS_FILE.content))}
  ELSE {}

\* C12 (as stated): after every add-url request for URL u that responds ok,
\* u is an entry of the persisted URL list, also when u is a substring of a
\* URL that is tracked already.
C12_AddUrlTracksUrl ==
  (last.op = "add-url" /\ last.status = 200) => last.source \in TrackedUrls

\* the request whose step has just run carried the configured bearer token
TokenCarried ==
  /\ ADMIN_TOKEN # <<>>
  /\ last.auth.header = StrBearer \o ADMIN_TOKEN

\* C13 (as stated): every admin request that does not carry the configured
\* bearer token is answered with HTTP 401, for every server configuration
\* including one where no admin token is set.
C13_Unauthorized401 ==
  (last.auth.given /\ ~TokenCarried) => (last.op = "reject" /\ last.status = 401)

\* what requireAdmin decides
AdminGate ==
  last.auth.given =>
    /\ last.op = "reject" <=> ~TokenCarried
    /\ last.op = "reject" =>
         last.status = IF ADMIN_TOKEN = <<>> THEN 500 ELSE 401

\* a request that is turned away changes nothing
RejectFrame ==
  last'.op = "reject" => UNCHANGED <<INDEX, DISK, FILES, URLS_FILE>>

\* C13 (amended): every admin request that does not carry the configured
\* bearer token is turned away, with HTTP 401 when a token is configured and
\* with HTTP 500 when none is (then every admin request is turned away), and
\* leaves the in-memory index, the persisted index, the stored files and
\* the URL list unchanged; a request that carries the token is let through.
C13_AdminGated == []AdminGate /\ [][RejectFrame]_vars

C13_Witness ==
  /\ last.op = "reject"
  /\ last.status = 401
  /\ last.auth.header = Secret
  /\ INDEX.items # <<>>

\* the other answer of C13 is reached too
C13_NoTokenReached ==
  /\ last.op = "reject"
  /\ last.status = 500
  /\ last.auth.header = StrBearer \o Secret

(***************************************************************************)
(* Claims about queries, load failure and failures during ingestion.       *)
(***************************************************************************)
\* the request whose first step has just run was a query with this message
ChatArrived == last.op = "chat" /\ last.msg.t # "none"

\* C14: a query whose message is missing, empty or not a string is answered
\* with HTTP 400, and so is a query against an empty index; in both cases
\* neither the embedding nor the completion service is called.  No step of
\* a query, whatever its outcome, changes the in-memory or persisted index.
QueryValidated ==
  ChatArrived =>
    LET invalid == last.msg.t # "string" \/ last.msg.v = <<>>
        empty   == ~INDEX.defined \/ INDEX.items = <<>>
    IN  /\ (invalid \/ empty) <=> last.status = 400
        /\ last.status = 400 => last.embeds = 0 /\ last.calls = 0
        /\ last.status # 400 => last.status = 0 /\ chat.pc = "embed"

QueryFrame == last'.op = "chat" => INDEX' = INDEX /\ DISK' = DISK

C14_QueryErrorsAndFrame == []QueryValidated /\ [][QueryFrame]_vars

C14_Witness ==
  /\ ChatArrived
  /\ last.status = 400
  /\ last.msg.t = "number"
  /\ INDEX.items # <<>>

\* the other 400 of C14 is reached too, on an index a delete has emptied
C14_EmptyIndexReached ==
  /\ ChatArrived
  /\ last.status = 400
  /\ last.msg = [t |-> "string", v |-> <<49>>]
  /\ INDEX.defined
  /\ mutated

\* C15 (as stated): whatever the persisted document was at process start
\* (missing, not JSON, or JSON without a record list), the in-memory index
\* has a record list, and no later operation raises an error where it would
\* not on an empty index.
C15_LoadFailureYieldsEmptyIndex ==
  /\ INDEX.defined
  /\ last.tag # "TypeError, no response"

\* C15, the part that holds: a missing or unparseable document
C15_MissingOrGarbage ==
  (~mutated /\ DISK.state # "json") => INDEX = EmptyIndex

\* records of the index whose source is s
CountOf(items, s) ==
  Cardinality({i \in 1..Len(items) : items[i].source = s})

\* the step that resumes a pending append of two or more records ends with
\* some but not all of them in the index
UploadAppendsPart ==
  /\ UploadEmbedded
  /\ Len(INDEX'.items) > Len(INDEX.items)
  /\ Len(INDEX'.items) < Len(INDEX.items) + Len(up.chunks)

AddUrlAppendsPart ==
  /\ AddUrlEmbedded
  /\ Len(INDEX'.items) > Len(INDEX.items)
  /\ Len(INDEX'.items) < Len(INDEX.items) + Len(au.chunks)

\* C16 (as stated): append is not atomic with respect to readers: a query's
\* retrieval scan can observe some but not all of the records one
\* embedAndAppend call adds.  A scan runs within one event-loop step, so it
\* can do so only if the append can be left, between two event-loop steps,
\* with part of its records pushed.
C16_AppendNotAtomic ==
  /\ (up.pc = "embed" /\ Len(up.chunks) >= 2 /\ INDEX.defined) => ENABLED UploadAppendsPart
  /\ (au.pc = "embed" /\ Len(au.chunks) >= 2 /\ INDEX.defined) => ENABLED AddUrlAppendsPart

\* the scan of a query reads the index as the event-loop step that runs it
\* finds it
ScanSeesIndex ==
  ChatRanked =>
    /\ Len(last.top) = Min(TopK, Len(INDEX.items))
    /\ \A i \in 1..Len(last.top) : last.top[i].rec = INDEX.items[last.top[i].pos]

\* a step that appends for a source appends all of that source's chunks
AppendWhole ==
  /\ (up.pc = "embed" /\ INDEX'.items # INDEX.items /\ up' # up) =>
        /\ Len(INDEX'.items) = Len(INDEX.items) + Len(up.chunks)
        /\ \A i \in 1..Len(up.chunks) :
              /\ INDEX'.items[Len(INDEX.items) + i].text = up.chunks[i]
              /\ INDEX'.items[Len(INDEX.items) + i].source = up.name
  /\ (au.pc = "embed" /\ INDEX'.items # INDEX.items /\ au' # au) =>
        /\ Len(INDEX'.items) = Len(INDEX.items) + Len(au.chunks)
        /\ \A i \in 1..Len(au.chunks) :
              /\ INDEX'.items[Len(INDEX.items) + i].text = au.chunks[i]
              /\ INDEX'.items[Len(INDEX.items) + i].source = au.url

\* C16 (amended): append is atomic with respect to readers: in every
\* interleaving of an ingestion request and a query, the query's retrieval
\* scan observes either all or none of the records one embedAndAppend call
\* adds; the push loop and the scan each run within one event-loop step.
C16_AppendAtomic == []ScanSeesIndex /\ [][AppendWhole]_vars

C16_Witness ==
  /\ chat.pc = "embed"
  /\ last.op = "add-url"
  /\ last.status = 200
  /\ last.n = 2
  /\ CountOf(INDEX.items, last.source) = 2

\* an upload or add-url request has just failed
IngestFailed ==
  /\ last.op \in {"upload", "add-url"}
  /\ last.tag \in {"fetch error", "extraction error", "embedding error"}

\* C17: a fetch, extraction or embedding failure during add-url or during a
\* file of an upload ends the request with HTTP 500; the embedding service
\* has been called at most once for that source and is not called again.
IngestFailureFatal ==
  IngestFailed =>
    /\ last.status = 500
    /\ last.embeds <= 1
    /\ last.tag = "embedding error" <=> last.embeds = 1
    /\ last.op = "upload" => up.pc = "idle"
    /\ last.op = "add-url" => au.pc = "idle"

\* C17: the failing step adds no record of that source and removes none:
\* the records of earlier files of the upload stay, in memory and persisted
IngestFailureFrame ==
  (last'.op \in {"upload", "add-url"}
     /\ last'.tag \in {"fetch error", "extraction error", "embedding error"})
  => INDEX' = INDEX /\ DISK' = DISK

C17_IngestFailure == []IngestFailureFatal /\ [][IngestFailureFrame]_vars

C17_Witness ==
  /\ IngestFailed
  /\ last.op = "upload"
  /\ last.acked # {}
  /\ \A e \in last.acked : CountOf(INDEX.items, e.source) = e.n
  /\ CountOf(INDEX.items, last.source) = 0

\* C18 (as stated): when a rebuild has finished, the index still holds the
\* n records of every source for which an upload or add-url request answered
\* ok with n > 0 records while the rebuild was in progress (absent a delete
\* of that source).
C18_NoAckedIngestionLost ==
  last.op = "rebuild" =>
    \A e \in last.acked :
       /\ CountOf(INDEX.items, e.source) >= e.n
       /\ DISK = JsonFile(INDEX)

\* C19: delete-by-source leaves the URL list and the stored files as they
\* are
DeleteFrame == last'.op = "delete" => URLS_FILE' = URLS_FILE /\ FILES' = FILES

\* a rebuild run alone has just ended, and the step before it began was a
\* delete-by-source that removed records
RebuildAfterDelete ==
  /\ last.op = "rebuild"
  /\ last.alone
  /\ last.prev.op = "delete"
  /\ last.prev.n > 0

\* C19: for a source s that is still tracked and still ingestible,
\* delete-by-source(s) followed by a rebuild ends in an index that holds the
\* records of s again
DeletedComesBack ==
  RebuildAfterDelete =>
    LET s == last.prev.source
    IN  \A i \in 1..Len(last.log) :
          (last.log[i].source = s /\ last.log[i].ok) =>
             CountOf(INDEX.items, s) >= Len(last.log[i].chunks)

\* a deleted source that is on the URL list or among the files is tried by
\* the rebuild
DeletedIsTried ==
  RebuildAfterDelete =>
    LET s == last.prev.source
    IN  (s \in TrackedUrls \/ \E j \in 1..Len(FILES) : FILES[j].name = s)
          <=> \E i \in 1..Len(last.log) : last.log[i].source = s

C19_DeleteChangesOnlyIndex ==
  [](DeletedComesBack /\ DeletedIsTried) /\ [][DeleteFrame]_vars

C19_Witness ==
  /\ RebuildAfterDelete
  /\ last.prev.source \in TrackedUrls
  /\ CountOf(INDEX.items, last.prev.source) = last.prev.n

(***************************************************************************)
(* ChunkSpec: one call of chunkText on every bounded input, run one loop   *)
(* iteration at a time.  The code has no guard on overlap >= size; the     *)
(* model stops such a call after MaxLen + 2 iterations to stay finite.     *)
(***************************************************************************)
Alphabet == {1, 2}

ChunkInit ==
  /\ ServerQuiet
  /\ INDEX = EmptyIndex
  /\ tk = TopKOff
  /\ \E t \in SeqsUpTo(Alphabet, MaxLen), s \in 1..MaxSize, o \in 0..MaxSize :
        chunker = [pc |-> "loop", text |-> t, size |-> s, overlap |-> o,
                   i |-> 0, chunks |-> <<>>]

\* one iteration of the while loop (app.js 69-74)
ChunkLoopStep ==
  /\ chunker.pc = "loop"
  /\ chunker.i < Len(chunker.text)
  /\ Len(chunker.chunks) < MaxLen + 2
  /\ LET end   == ChunkEnd(Len(chunker.text), chunker.i, chunker.size)
         chunk == Slice(chunker.text, chunker.i, end)
     IN  chunker' = [chunker EXCEPT
                       !.chunks = Append(@, chunk),
                       !.i = ChunkAdvance(chunker.i, chunker.size, chunker.overlap)]
  /\ UNCHANGED <<tk, INDEX, restVars>>

\* the loop condition fails: return chunks (app.js 69, 75)
ChunkReturn ==
  /\ chunker.pc = "loop"
  /\ ~(chunker.i < Len(chunker.text))
  /\ chunker' = [chunker EXCEPT !.pc = "done"]
  /\ UNCHANGED <<tk, INDEX, restVars>>

ChunkNext == ChunkLoopStep \/ ChunkReturn

ChunkSpec == ChunkInit /\ [][ChunkNext]_vars

(***************************************************************************)
(* Claims about chunkText.                                                 *)
(***************************************************************************)
ChunkDone == chunker.pc = "done" /\ chunker.overlap < chunker.size

ChunkL == Len(chunker.text)

ChunkStride == chunker.size - chunker.overlap

\* 0-based text positions held by the j-th chunk (j = 1, 2, ...)
ChunkPositions(j) ==
  { p \in 0..(ChunkL - 1) :
      /\ p >= (j - 1) * ChunkStride
      /\ p < (j - 1) * ChunkStride + Len(chunker.chunks[j]) }

\* number of text positions chunks j and j+1 have in common
ChunkShared(j) == Cardinality(ChunkPositions(j) \cap ChunkPositions(j + 1))

\* C2 (as stated): chunkText returns ceil((L-O)/(S-O)) chunks when L > O,
\* 1 chunk when 0 < L <= O, and 0 chunks when L = 0.
C2_CountAsClaimed ==
  ChunkDone =>
    Len(chunker.chunks) =
      IF ChunkL = 0 THEN 0
      ELSE IF ChunkL <= chunker.overlap THEN 1
      ELSE CeilDiv(ChunkL - chunker.overlap, ChunkStride)

\* C2 (amended): for 0 <= O < S chunkText returns exactly ceil(L/(S-O))
\* chunks, which is 0 chunks when L = 0.
C2_ChunkCount ==
  ChunkDone => Len(chunker.chunks) = CeilDiv(ChunkL, ChunkStride)

C2_Witness ==
  /\ ChunkDone
  /\ chunker.overlap > 0
  /\ ChunkL > chunker.size
  /\ Len(chunker.chunks) >= 3

\* the chunks are the windows text[j*(S-O) .. min(L, j*(S-O)+S)), j = 0, 1, ...
ChunkWindows ==
  \A j \in 1..Len(chunker.chunks) :
     /\ (j - 1) * ChunkStride < ChunkL
     /\ chunker.chunks[j] =
          SubSeq(chunker.text, (j - 1) * ChunkStride + 1,
                 Min(ChunkL, (j - 1) * ChunkStride + chunker.size))

ChunkCoverage ==
  \A p \in 0..(ChunkL - 1) :
     \E j \in 1..Len(chunker.chunks) : p \in ChunkPositions(j)

ChunkBounded ==
  \A j \in 1..Len(chunker.chunks) : Len(chunker.chunks[j]) <= chunker.size

\* C3 (as stated): the chunks are the sliding windows, cover the text, are
\* no longer than S, and every pair of consecutive chunks except the pair
\* that ends with the last chunk shares exactly O characters.
C3_WindowsAsClaimed ==
  (ChunkDone /\ ChunkL > 0) =>
    /\ ChunkWindows
    /\ ChunkCoverage
    /\ ChunkBounded
    /\ \A j \in 1..(Len(chunker.chunks) - 2) : ChunkShared(j) = chunker.overlap

\* C3 (amended): the chunks are the sliding windows, cover the text, are no
\* longer than S, and every pair of consecutive chunks whose first chunk is a
\* full window of S characters shares exactly O characters; a pair whose
\* first chunk is cut short by the end of the text shares the whole of its
\* second chunk.  When 2*O <= S the only pair that can be cut short is the
\* one that ends with the last chunk.
C3_Windows ==
  (ChunkDone /\ ChunkL > 0) =>
    /\ ChunkWindows
    /\ ChunkCoverage
    /\ ChunkBounded
    /\ \A j \in 1..(Len(chunker.chunks) - 1) :
          IF Len(chunker.chunks[j]) = chunker.size
          THEN ChunkShared(j) = chunker.overlap
          ELSE ChunkShared(j) = Len(chunker.chunks[j + 1])
    /\ (2 * chunker.overlap <= chunker.size =>
          \A j \in 1..(Len(chunker.chunks) - 2) : ChunkShared(j) = chunker.overlap)

C3_Witness ==
  /\ ChunkDone
  /\ chunker.overlap > 0
  /\ Len(chunker.chunks) >= 3
  /\ ChunkShared(1) = chunker.overlap
  /\ Len(chunker.chunks[Len(chunker.chunks)]) < chunker.size

\* C4 (as stated): chunkText terminates for every input: with overlap >= size
\* on a non-empty text it is guarded (no loop iteration runs), and with
\* overlap < size the loop ends within L iterations.
C4_ChunkTextTerminates ==
  /\ (chunker.overlap >= chunker.size => chunker.chunks = <<>>)
  /\ Len(chunker.chunks) <= ChunkL
====
